---- MODULE Spec2Model ----
(***************************************************************************)
(* Model of video_grid_full_pipeline33T.py: the AES-GCM "envelope" page    *)
(* (encrypt_html_aes_gcm, make_aes_protected_wrapper and the JavaScript    *)
(* unlock routine embedded in the wrapper), the collage builder            *)
(* (build_collages_for_33T) and the main pipeline that ties them together. *)
(*                                                                         *)
(* Five specifications share the variables:                                *)
(*   Spec         - one run of main(), or direct calls of the collage      *)
(*                  builder or of the envelope functions by an importing   *)
(*                  caller;                                                *)
(*   PageSpec     - main's lock step followed by the life of the produced  *)
(*                  wrapper page in a browser (submit handler and the      *)
(*                  asynchronous unlockWithPassword attempts);             *)
(*   LayoutSpec   - the grid layout arithmetic of build_collages_for_33T   *)
(*                  over arbitrary thumbnail counts and canvas sizes;      *)
(*   CollageSpec  - calls of build_collages_for_33T over thumbnails of     *)
(*                  several shapes and canvases of several sizes;          *)
(*   EnvelopeSpec - a sequence of calls of the envelope functions.         *)
(*                                                                         *)
(* Cryptography is idealised: PBKDF2 is an injective function of           *)
(* (password bytes, salt, iterations) and AES-GCM opens a ciphertext       *)
(* exactly when key and nonce are the ones it was sealed with and the      *)
(* ciphertext is intact; os.urandom never gives the same value twice.     *)
(***************************************************************************)
EXTENDS Integers, Sequences, FiniteSets, TLC

None == "None"

\* ------------------------------------------------------------------ bounds
MaxSubmits == 2
MaxCalls == 2

\* ------------------------------------------------------- program constants
DefaultIterations == 100000
ErrWrongPassword == "Decryption failed. Wrong password."
ErrEnterPassword == "Please enter a password."

\* ------------------------------------------------------------------ strings
\* Characters are code points.  BOM is U+FEFF; " " stands for any character
\* String.prototype.trim() removes.
BOM == "FEFF"
Whitespace == {" "}

\* The passwords typed at getpass and into the unlock form: empty, blank,
\* plain, with a leading or a trailing blank, and a longer one.
Passphrases ==
  {<<>>, <<" ">>, <<"a">>, <<" ", "a">>, <<"a", " ">>, <<"a", "a">>}

RECURSIVE TrimLeft(_)
TrimLeft(s) ==
  IF s # <<>> /\ Head(s) \in Whitespace THEN TrimLeft(Tail(s)) ELSE s

RECURSIVE TrimRight(_)
TrimRight(s) ==
  IF s # <<>> /\ s[Len(s)] \in Whitespace
  THEN TrimRight(SubSeq(s, 1, Len(s) - 1))
  ELSE s

\* JavaScript: (value || "").trim()
Trim(s) == TrimRight(TrimLeft(s))

\* UTF-8 bytes of one code point.
Utf8Of(c) ==
  CASE c = "a" -> <<97>>
    [] c = " " -> <<32>>
    [] c = "<" -> <<60>>
    [] c = "x" -> <<120>>
    [] c = BOM -> <<239, 187, 191>>

\* Python str.encode("utf-8") and JavaScript TextEncoder.encode: no BOM is
\* added and none is removed.
RECURSIVE Utf8Encode(_)
Utf8Encode(s) ==
  IF s = <<>> THEN <<>> ELSE Utf8Of(Head(s)) \o Utf8Encode(Tail(s))

RECURSIVE Utf8DecodeAll(_)
Utf8DecodeAll(b) ==
  IF b = <<>> THEN <<>>
  ELSE IF Len(b) >= 3 /\ SubSeq(b, 1, 3) = <<239, 187, 191>>
       THEN <<BOM>> \o Utf8DecodeAll(SubSeq(b, 4, Len(b)))
       ELSE LET c == CHOOSE ch \in {"a", " ", "<", "x"} : Utf8Of(ch) = <<Head(b)>>
            IN  <<c>> \o Utf8DecodeAll(Tail(b))

\* new TextDecoder().decode(buf): ignoreBOM defaults to false, so one leading
\* byte order mark is dropped from the decoded text.
TextDecoderDecode(b) ==
  LET s == Utf8DecodeAll(b)
  IN  IF s # <<>> /\ Head(s) = BOM THEN Tail(s) ELSE s

stringToArrayBuffer(str) == Utf8Encode(str)

\* A document body: its first characters, and what it embeds.
\*   og     - the cover file named by og:image / twitter:image, or None
\*   banner - the image of the collage banner, or None
BodyEncode(html) == [html EXCEPT !.prefix = Utf8Encode(html.prefix)]
arrayBufferToString(buf) == [buf EXCEPT !.prefix = TextDecoderDecode(buf.prefix)]

\* base64: b64encode wraps, atob unwraps and throws on anything else.
Malformed == <<"malformed">>
B64Encode(x) == <<"b64", x>>
AtobThrows(s) == s[1] # "b64"
base64ToArrayBuffer(s) == s[2]

\* ------------------------------------------------------------------ crypto
\* os.urandom(n): the values a draw of n bytes can give.  The source is taken
\* to be ideal: a draw never gives a value it has given before, so what a
\* draw can return is what has not been put out yet.
Urandom(n) == {<<n, k>> : k \in 1..MaxCalls}
os_urandom(n, out) == Urandom(n) \ out

Salts == Urandom(16)
Nonces == Urandom(12)

\* PBKDF2-HMAC-SHA256, 32 bytes.
Pbkdf2(passwordBytes, salt, iterations) ==
  [pw |-> passwordBytes, salt |-> salt, iterations |-> iterations]

AesGcmEncrypt(key, iv, plaintext) ==
  [key |-> key, iv |-> iv, pt |-> plaintext, intact |-> TRUE]

\* crypto.subtle.decrypt: the tag verifies only for the sealing key and
\* nonce over an unmodified ciphertext.
AesGcmOpens(key, iv, ct) == ct.intact /\ ct.key = key /\ ct.iv = iv


\* ------------------------------------------------------------- the envelope
\* encrypt_html_aes_gcm with salt and iv drawn once, when the function is
\* defined (as default arguments), instead of in each call.
encrypt_html_aes_gcm_DrawnAtDef(html_, password, salt, iv) ==
  LET password_bytes == Utf8Encode(password)
      key == Pbkdf2(password_bytes, <<16, 0>>, DefaultIterations)
      ciphertext == AesGcmEncrypt(key, <<12, 0>>, BodyEncode(html_))
  IN  [salt_b64 |-> B64Encode(<<16, 0>>),
       iv_b64 |-> B64Encode(<<12, 0>>),
       ct_b64 |-> B64Encode(ciphertext),
       iterations |-> DefaultIterations]

\* encrypt_html_aes_gcm(html, password): salt and iv are the two os.urandom
\* draws made inside the call.
encrypt_html_aes_gcm(html_, password, salt, iv) ==
  LET password_bytes == Utf8Encode(password)
      key == Pbkdf2(password_bytes, salt, DefaultIterations)
      ciphertext == AesGcmEncrypt(key, iv, BodyEncode(html_))
  IN  [salt_b64 |-> B64Encode(salt),
       iv_b64 |-> B64Encode(iv),
       ct_b64 |-> B64Encode(ciphertext),
       iterations |-> DefaultIterations]

\* What a call of encrypt_html_aes_gcm leaves behind: the password, the key
\* and nonce the ciphertext was sealed with, the salt, and the values
\* os.urandom gave during the call.
Sealed(e, password, drawn) ==
  [password |-> password,
   key |-> base64ToArrayBuffer(e.ct_b64).key,
   iv |-> base64ToArrayBuffer(e.iv_b64),
   salt |-> base64ToArrayBuffer(e.salt_b64),
   drawn |-> drawn]

\* make_aes_protected_wrapper(html, password, og_image_rel): the password
\* page.  Its public part is the og/twitter metadata; the payload is inside
\* CT_B64.
make_aes_protected_wrapper(html_, password, og_rel, salt, iv) ==
  LET e == encrypt_html_aes_gcm(html_, password, salt, iv)
  IN  [kind |-> "aes",
       og |-> og_rel,
       SALT_B64 |-> e.salt_b64,
       IV_B64 |-> e.iv_b64,
       CT_B64 |-> e.ct_b64,
       PBKDF2_ITERATIONS |-> e.iterations]

\* make_obfuscated_wrapper(html): base64 chunks written back with
\* document.write; no key is involved.
make_obfuscated_wrapper(html_) == [kind |-> "obf", b64 |-> B64Encode(html_)]

\* main's test of the password read by getpass: `if not pw`.
EmptyPasswordRefused(password) == password = <<>>

\* ------------------------------------------------------------- the collage
ENABLE_PUBLIC_OG_COLLAGE == TRUE
MainBaseW == 1200
MainBaseH == 630
CoverName == "grid-cover-<ts>.png"

Max(a, b) == IF a >= b THEN a ELSE b
Min(a, b) == IF a <= b THEN a ELSE b

\* int(math.ceil(a / b)) for a >= 0, b > 0.
CeilDiv(a, b) == (a + b - 1) \div b

\* int(math.ceil(math.sqrt(num / den))) for num >= 0, den > 0: the least c
\* with c*c >= num/den.  (The float computation agrees with this for every
\* canvas below 2^40 pixels a side.)
CeilSqrtRatio(num, den) ==
  CHOOSE c \in 0..num :
    /\ c * c * den >= num
    /\ c = 0 \/ (c - 1) * (c - 1) * den < num

\* Cols with the square root rounded down instead of up.
Cols_SqrtFloor(n, w, h) ==
  LET c == CeilSqrtRatio(n * w, h)
      f == IF c * c * h = n * w THEN c ELSE c - 1
  IN  Max(3, Min(12, f))

\* Cols with the upper clamp forgotten.
Cols_NoUpperClamp(n, w, h) == Max(3, CeilSqrtRatio(n * w, h))

\* cols = max(3, min(12, int(math.ceil(math.sqrt(n * base_w / base_h)))))
Cols(n, w, h) == Max(3, Min(12, CeilSqrtRatio(n * w, h)))

\* Rows that always adds a row to the integer quotient.
Rows_ExtraRow(n, cols) == (n \div cols) + 1

\* Rows with the quotient rounded down (and at least one row).
Rows_RoundDown(n, cols) == Max(1, n \div cols)

\* rows = int(math.ceil(n / cols))
Rows(n, cols) == CeilDiv(n, cols)

\* The four layout numbers of build_collages_for_33T.
GridLayout(n, w, h) ==
  LET cols == Cols(n, w, h)
      rows == Rows(n, cols)
  IN  [cols |-> cols, rows |-> rows,
       cell_w |-> w \div cols, cell_h |-> h \div rows]

\* A tile's thumb_src_collage: "none" (no source), "bad" (a source
\* download_image_to_pil returns None for), or a source that loads, named by
\* the shape of its image: "ok" (a 16:9 thumbnail), "portrait", "wide" (a
\* one pixel high strip).
TileKinds == {"none", "ok", "bad"}
ImageKinds == {"ok", "portrait", "wide"}
ThumbKinds == TileKinds \cup ImageKinds

\* In screenshot mode a tile's source can also be "shot": the local file
\* thumbs/shot_NNN.png saved by capture_screenshots_selenium.
LocalKinds == {"shot"}

\* im.width, im.height of the image a source loads as.
ImgSize(kind) ==
  CASE kind = "ok" -> [w |-> 1280, h |-> 720]
    [] kind = "portrait" -> [w |-> 720, h |-> 1280]
    [] kind = "wide" -> [w |-> 1000, h |-> 1]
    [] kind = "shot" -> [w |-> 1365, h |-> 768]

\* `if t.thumb_src_collage:`
HasThumb(kind) == kind # "none"

\* Loads for a loader that hands back an image even when the source fails.
Loads_Always(kind) == HasThumb(kind)

\* download_image_to_pil(src, root) is not None
Loads(kind) == kind \in ImageKinds

\* The collection loop: the tiles with a source, in order, cut at max_cells.
RECURSIVE CollectThumbs(_, _, _, _)
CollectThumbs(ts, i, acc, cap) ==
  IF i > Len(ts) THEN acc
  ELSE IF HasThumb(ts[i])
       THEN IF Len(acc) + 1 >= cap THEN Append(acc, i)
            ELSE CollectThumbs(ts, i + 1, Append(acc, i), cap)
       ELSE CollectThumbs(ts, i + 1, acc, cap)

\* download_image_to_pil for a source of either sort: a local path loads
\* when the file exists.
LoadsFrom(kind, files) ==
  IF kind \in LocalKinds THEN files = "present" ELSE Loads(kind)

\* The loading loop: the sources that load, in order.
LoadAll(ts, srcs, files) == SelectSeq(srcs, LAMBDA i : LoadsFrom(ts[i], files))

ThumbDataUri == "data:image/png;base64"

\* src_to_data_uri(raw_thumb, repo_root) if raw_thumb else None
src_to_data_uri(kind, files) ==
  IF kind = "none" THEN None
  ELSE IF kind \in LocalKinds
       THEN IF files = "present" THEN ThumbDataUri ELSE None
       ELSE IF kind = "bad" THEN None ELSE ThumbDataUri

\* The reads of screenshot files made by `by` for the tiles ts.
FileReads(by, ts, files) ==
  {[by |-> by, tile |-> i, found |-> files = "present"] : i \in ts}

\* The tiles whose source is a local screenshot file.
ShotTiles(ts) == {i \in 1..Len(ts) : ts[i] \in LocalKinds}

\* PageBuildReads for a page builder that opens the tiles' original sources.
PageBuildReads_FromSource(ts) == ShotTiles(ts)

\* The tiles whose screenshot file build_page_html opens: it uses thumb_src,
\* the data URIs, and opens no file.
PageBuildReads(ts) == {}

\* CellRow with row and column taken the other way round.
CellRow_Swapped(i, cols) == i % cols

\* r = idx // cols
CellRow(i, cols) == i \div cols

\* c = idx % cols
CellCol(i, cols) == i % cols

\* PlacementOver for a loop that leaves after its first turn.
PlacementOver_AfterFirst(i, n, lay) == i >= 1

\* The placement loop stops at the end of imgs, or breaks at the first
\* index whose row is outside the grid.
PlacementOver(i, n, lay) == i >= n \/ CellRow(i, lay.cols) >= lay.rows

\* FitSize with the comparison of the two ratios turned round: the image
\* covers the cell instead of fitting into it.
FitSize_Cover(im, cell_w, cell_h) ==
  IF im.w * cell_h < cell_w * im.h
  THEN [w |-> cell_w, h |-> (cell_w * im.h) \div im.w]
  ELSE [w |-> (cell_h * im.w) \div im.h, h |-> cell_h]

\* Lines 514-521, for cell_h > 0: im_ratio > cell_ratio is
\* im.w/im.h > cell_w/cell_h, and int(cell_w / im_ratio), int(cell_h *
\* im_ratio) are the integer parts of cell_w*im.h/im.w and cell_h*im.w/im.h
\* (the float results agree with these for the sizes used here).
FitSize(im, cell_w, cell_h) ==
  IF im.w * cell_h > cell_w * im.h
  THEN [w |-> cell_w, h |-> (cell_w * im.h) \div im.w]
  ELSE [w |-> (cell_h * im.w) \div im.h, h |-> cell_h]

\* Lines 524-525: the top left corner of the paste.
PasteAt(r, c, size, lay) ==
  [x |-> c * lay.cell_w + (lay.cell_w - size.w) \div 2,
   y |-> r * lay.cell_h + (lay.cell_h - size.h) \div 2]

\* build_page_html: the document with its og metadata and collage banner.
build_page_html(og_rel, real_uri) ==
  [prefix |-> <<"<">>, og |-> og_rel, banner |-> real_uri]

\* ---------------------------------------------------------------- variables
VARIABLES
  entry,          \* "main", or the function an importing caller invokes
  pc,             \* position of the running call
  aes_lock,       \* parse_args flags
  obfuscate,
  og_max,         \* parse_args: ogmax=N, at least 1
  tiles,          \* the tiles of step 4, each by its thumb_src_collage
  max_cells,      \* build_collages_for_33T: arguments and locals
  base_w,
  base_h,
  thumb_srcs,     \* indices of the tiles whose source was collected
  imgs,           \* indices of the tiles whose image loaded
  layout,         \* cols, rows, cell_w, cell_h, or Absent
  collage,        \* the canvas with its placements, or Absent
  idx,            \* the placement loop's index
  bc_ret,         \* the pair build_collages_for_33T returned, or Absent
  cover_file,     \* content of grid-cover-<ts>.png, or Absent
  real_collage_data_uri,
  cover_path,
  og_image_rel,   \* name of the cover file, or None
  html,           \* the document built by build_page_html
  pw,             \* what getpass returned (empty before it is read)
  html_a_file,    \* content of grid_<ts>_A.html, or Absent
  html_b_file,    \* content of grid_<ts>_B.html, or Absent
  kdfLog,         \* passwords from which a key has been derived
  ret,            \* what a directly called envelope function returned
  files_for_git,  \* the files handed to run_git_commands
  git,            \* what run_git_commands has done
  page,           \* the wrapper page as loaded by a browser, or Absent
  tampered,       \* how the delivered page differs from the written one
  document,       \* what the browser shows: the form, or a written document
  errorText,      \* textContent of the #error element of the form
  subs,           \* the form submissions so far, each with the text typed
                  \* (raw), the trimmed password, the position of its
                  \* unlockWithPassword attempt, the error text it left and
                  \* whether it wrote the document
  probe,          \* LayoutSpec: the layout inputs and the computed layout
  urandom_out,    \* the values os.urandom has given so far
  envelopes,      \* what the calls of encrypt_html_aes_gcm sealed, in order
  screenshot_mode,   \* parse_args flag
  screenshot_files,  \* the files of screenshot_rel_map: "present", "deleted"
  thumb_src,      \* step 4: the data URI of each tile, or None
  file_reads      \* the reads of screenshot files made so far

rngVars == <<urandom_out, envelopes>>
shotVars == <<screenshot_mode, screenshot_files, thumb_src, file_reads>>
extraVars == <<rngVars, shotVars>>
pageVars == <<page, tampered, document, errorText, subs>>
argVars == <<entry, aes_lock, obfuscate, og_max, tiles>>
bcVars == <<max_cells, base_w, base_h, thumb_srcs, imgs, layout, collage, idx,
            bc_ret, cover_file>>
collageOut == <<real_collage_data_uri, cover_path, og_image_rel>>
gitVars == <<files_for_git, git>>
mainVars == <<argVars, extraVars, bcVars, collageOut, gitVars, pc, html, pw,
              html_a_file, html_b_file, kdfLog, ret, probe>>
vars == <<mainVars, pageVars>>

\* No file written yet / no page loaded yet.
Absent == [kind |-> "none"]
FormDocument == [kind |-> "form"]
WrittenDocument(h) == [kind |-> "html", html |-> h]

\* -------------------------------------------------- the page in the browser
\* The browser loads HTML B.
PageLoad ==
  /\ pc = "written_b"
  /\ page = Absent
  /\ html_b_file.kind = "aes"
  /\ page' = html_b_file
  /\ UNCHANGED <<mainVars, tampered, document, errorText, subs>>

OtherNonce(n) == CHOOSE m \in Nonces : m # n

\* The page is a static file: what reaches the browser may differ from what
\* was written in one of its embedded fields.
TamperKinds == {"salt_malformed", "nonce_changed", "ciphertext_modified"}
Tamper(kind) ==
  /\ page # Absent
  /\ tampered = "none"
  /\ subs = <<>>
  /\ tampered' = kind
  /\ page' =
       CASE kind = "salt_malformed" -> [page EXCEPT !.SALT_B64 = Malformed]
         [] kind = "nonce_changed" ->
              [page EXCEPT !.IV_B64 = B64Encode(OtherNonce(page.IV_B64[2]))]
         [] kind = "ciphertext_modified" ->
              [page EXCEPT !.CT_B64 =
                 B64Encode([page.CT_B64[2] EXCEPT !.intact = FALSE])]
  /\ UNCHANGED <<mainVars, document, errorText, subs>>

InFlightPcs == {"importKey", "deriveKey", "decrypt"}
FinishedPcs == {"rejected", "ok", "err"}

\* unlockStart with the base64 decoding moved in front of the try block: the
\* atob exception escapes and the catch block never sets the text.
unlockStart_DecodeOutsideTry(p) ==
  IF AtobThrows(p.SALT_B64) \/ AtobThrows(p.IV_B64) \/ AtobThrows(p.CT_B64)
  THEN [pc |-> "err", text |-> ""]
  ELSE [pc |-> "importKey", text |-> ""]

\* unlockWithPassword(pw) up to its first await: the error text is cleared,
\* then, inside the try, the password is encoded and the three fields are
\* decoded; an atob exception lands in the catch block.
unlockStart(p) ==
  IF AtobThrows(p.SALT_B64) \/ AtobThrows(p.IV_B64) \/ AtobThrows(p.CT_B64)
  THEN [pc |-> "err", text |-> ErrWrongPassword]
  ELSE [pc |-> "importKey", text |-> ""]

\* The submit handler: preventDefault, trim, the empty test, and the call of
\* unlockWithPassword (not awaited).
Submit(raw) ==
  /\ page # Absent
  /\ document = FormDocument
  /\ Len(subs) < MaxSubmits
  /\ LET trimmed == Trim(raw)
     IN  IF trimmed = <<>>
         THEN /\ errorText' = ErrEnterPassword
              /\ subs' = Append(subs, [raw |-> raw, pw |-> trimmed,
                                       pc |-> "rejected",
                                       shown |-> ErrEnterPassword,
                                       wrote |-> FALSE])
         ELSE LET st == unlockStart(page)
              IN  /\ errorText' = st.text
                  /\ subs' = Append(subs, [raw |-> raw, pw |-> trimmed,
                                           pc |-> st.pc, shown |-> st.text,
                                           wrote |-> FALSE])
  /\ UNCHANGED <<mainVars, page, tampered, document>>

\* await crypto.subtle.importKey("raw", pwBuf, "PBKDF2", ...) resolves.
ResolveImportKey(i) ==
  /\ i \in 1..Len(subs)
  /\ subs[i].pc = "importKey"
  /\ subs' = [subs EXCEPT ![i].pc = "deriveKey"]
  /\ UNCHANGED <<mainVars, page, tampered, document, errorText>>

\* await crypto.subtle.deriveKey({PBKDF2, salt, iterations, SHA-256}, ...)
\* resolves.
ResolveDeriveKey(i) ==
  /\ i \in 1..Len(subs)
  /\ subs[i].pc = "deriveKey"
  /\ subs' = [subs EXCEPT ![i].pc = "decrypt"]
  /\ UNCHANGED <<mainVars, page, tampered, document, errorText>>

\* The key an attempt derives from the typed password and the page's fields.
aesKey(p, password) ==
  Pbkdf2(stringToArrayBuffer(password), base64ToArrayBuffer(p.SALT_B64),
         p.PBKDF2_ITERATIONS)

\* What the attempt does once crypto.subtle.decrypt settles: on success the
\* plaintext is decoded and written as the new document, on rejection the
\* catch block sets the error text.
unlockFinish(p, password) ==
  LET ciphertext == base64ToArrayBuffer(p.CT_B64)
      iv == base64ToArrayBuffer(p.IV_B64)
  IN  IF AesGcmOpens(aesKey(p, password), iv, ciphertext)
      THEN [pc |-> "ok", write |-> TRUE,
            doc |-> WrittenDocument(arrayBufferToString(ciphertext.pt)),
            setText |-> FALSE, text |-> ""]
      ELSE [pc |-> "err", write |-> FALSE, doc |-> FormDocument,
            setText |-> TRUE, text |-> ErrWrongPassword]

ResolveDecrypt(i) ==
  /\ i \in 1..Len(subs)
  /\ subs[i].pc = "decrypt"
  /\ LET fin == unlockFinish(page, subs[i].pw)
         text == IF fin.setText THEN fin.text ELSE errorText
     IN  /\ document' = IF fin.write THEN fin.doc ELSE document
         /\ errorText' = text
         /\ subs' = [subs EXCEPT ![i].pc = fin.pc, ![i].shown = text,
                                 ![i].wrote = fin.write]
  /\ UNCHANGED <<mainVars, page, tampered>>

\* --------------------------------------------------- build_collages_for_33T
NoCollage == [uri |-> Absent, path |-> None]

\* Lines 466-480: the max_cells test, the collection of the sources and the
\* test for an empty collection.
BcCollect ==
  /\ pc = "bc_collect"
  /\ IF max_cells <= 0
     THEN /\ bc_ret' = NoCollage
          /\ pc' = "bc_return"
          /\ UNCHANGED thumb_srcs
     ELSE LET srcs == CollectThumbs(tiles, 1, <<>>, max_cells)
          IN  /\ thumb_srcs' = srcs
              /\ IF srcs = <<>>
                 THEN bc_ret' = NoCollage /\ pc' = "bc_return"
                 ELSE bc_ret' = bc_ret /\ pc' = "bc_load"
  /\ UNCHANGED <<argVars, extraVars, max_cells, base_w, base_h, imgs, layout, collage, idx,
                 cover_file, collageOut, gitVars, html, pw, html_a_file,
                 html_b_file, kdfLog, ret, probe, pageVars>>

\* Lines 482-506: the images are loaded; with none the call returns, else
\* the layout is computed and the black canvas is created.
BcLoad ==
  /\ pc = "bc_load"
  /\ LET loaded == LoadAll(tiles, thumb_srcs, screenshot_files)
         local == {i \in ShotTiles(tiles) :
                     \E k \in 1..Len(thumb_srcs) : thumb_srcs[k] = i}
     IN  /\ imgs' = loaded
         /\ file_reads' = file_reads \cup
              FileReads("download_image_to_pil", local, screenshot_files)
         /\ IF loaded = <<>>
            THEN /\ bc_ret' = NoCollage
                 /\ pc' = "bc_return"
                 /\ UNCHANGED <<layout, collage, idx>>
            ELSE /\ layout' = GridLayout(Len(loaded), base_w, base_h)
                 /\ collage' = [kind |-> "canvas", w |-> base_w, h |-> base_h,
                                placed |-> {}]
                 /\ idx' = 0
                 /\ pc' = "bc_place"
                 /\ UNCHANGED bc_ret
  /\ UNCHANGED <<argVars, rngVars, screenshot_mode, screenshot_files,
                 thumb_src, max_cells, base_w, base_h, thumb_srcs, cover_file,
                 collageOut, gitVars, html, pw, html_a_file, html_b_file,
                 kdfLog, ret, probe, pageVars>>

\* Lines 508-526: one turn of the placement loop.  cell_w / cell_h raises
\* ZeroDivisionError when cell_h is 0 and im.resize raises ValueError for a
\* size with a zero side; build_collages_for_33T catches neither.
BcPlace ==
  /\ pc = "bc_place"
  /\ IF PlacementOver(idx, Len(imgs), layout)
     THEN /\ pc' = "bc_encode"
          /\ UNCHANGED <<collage, idx>>
     ELSE LET r == CellRow(idx, layout.cols)
              c == CellCol(idx, layout.cols)
              im == ImgSize(tiles[imgs[idx + 1]])
          IN  IF layout.cell_h = 0
              THEN /\ pc' = "raised"
                   /\ UNCHANGED <<collage, idx>>
              ELSE LET new == FitSize(im, layout.cell_w, layout.cell_h)
                       at == PasteAt(r, c, new, layout)
                   IN  IF new.w < 1 \/ new.h < 1
                       THEN /\ pc' = "raised"
                            /\ UNCHANGED <<collage, idx>>
                       ELSE /\ collage' =
                                 [collage EXCEPT !.placed =
                                    @ \cup {[img |-> imgs[idx + 1],
                                             r |-> r, c |-> c,
                                             x |-> at.x, y |-> at.y,
                                             new_w |-> new.w,
                                             new_h |-> new.h]}]
                            /\ idx' = idx + 1
                            /\ pc' = "bc_place"
  /\ UNCHANGED <<argVars, extraVars, max_cells, base_w, base_h, thumb_srcs, imgs, layout,
                 bc_ret, cover_file, collageOut, gitVars, html, pw,
                 html_a_file, html_b_file, kdfLog, ret, probe, pageVars>>

\* The PNG data URI of an image.
DataUri(image) == [kind |-> "data_uri", png |-> image]

\* GaussianBlur(radius=9) of an image.
Blurred(image) == [kind |-> "blurred", of |-> image]

\* Lines 528-534: the real collage becomes a data URI.
BcEncode ==
  /\ pc = "bc_encode"
  /\ bc_ret' = [uri |-> DataUri(collage), path |-> None]
  /\ pc' = "bc_cover"
  /\ UNCHANGED <<argVars, extraVars, max_cells, base_w, base_h, thumb_srcs, imgs, layout,
                 collage, idx, cover_file, collageOut, gitVars, html, pw,
                 html_a_file, html_b_file, kdfLog, ret, probe, pageVars>>

\* Lines 536-543: the cover is the blurred collage, saved, and its path is
\* returned with the data URI.
BcCover ==
  /\ pc = "bc_cover"
  /\ cover_file' = Blurred(collage)
  /\ bc_ret' = [bc_ret EXCEPT !.path = CoverName]
  /\ pc' = "bc_return"
  /\ UNCHANGED <<argVars, extraVars, max_cells, base_w, base_h, thumb_srcs, imgs, layout,
                 collage, idx, collageOut, gitVars, html, pw, html_a_file,
                 html_b_file, kdfLog, ret, probe, pageVars>>

\* ------------------------------------------------------------------- main
\* Step 4 of main: the tiles are built; src_to_data_uri reads the file of
\* every tile whose source is a local screenshot.
MainBuildTiles ==
  /\ entry = "main"
  /\ pc = "step4"
  /\ thumb_src' =
       [i \in 1..Len(tiles) |-> src_to_data_uri(tiles[i], screenshot_files)]
  /\ file_reads' = file_reads \cup
       FileReads("src_to_data_uri", ShotTiles(tiles), screenshot_files)
  /\ pc' = "step5"
  /\ UNCHANGED <<argVars, rngVars, screenshot_mode, screenshot_files, bcVars,
                 collageOut, gitVars, html, pw, html_a_file, html_b_file,
                 kdfLog, ret, probe, pageVars>>

\* Step 5 of main, the call: build_collages_for_33T(tiles, repo_root,
\* max_cells=og_max, base_w=1200, base_h=630, timestamp=ts).
MainCollage ==
  /\ entry = "main"
  /\ pc = "step5"
  /\ IF ENABLE_PUBLIC_OG_COLLAGE /\ og_max > 0
     THEN /\ max_cells' = og_max
          /\ base_w' = MainBaseW
          /\ base_h' = MainBaseH
          /\ pc' = "bc_collect"
     ELSE /\ pc' = "step6"
          /\ UNCHANGED <<max_cells, base_w, base_h>>
  /\ UNCHANGED <<argVars, extraVars, thumb_srcs, imgs, layout, collage, idx, bc_ret,
                 cover_file, collageOut, gitVars, html, pw, html_a_file,
                 html_b_file, kdfLog, ret, probe, pageVars>>

\* `if cover_path: og_image_rel = cover_path.name`
OgImageRel(path) == IF path # None THEN path ELSE None

\* Step 5 of main, the return: the pair is unpacked and og_image_rel set.
MainCollageReturn ==
  /\ entry = "main"
  /\ pc = "bc_return"
  /\ real_collage_data_uri' = bc_ret.uri
  /\ cover_path' = bc_ret.path
  /\ og_image_rel' = OgImageRel(bc_ret.path)
  /\ pc' = "step6"
  /\ UNCHANGED <<argVars, extraVars, bcVars, gitVars, html, pw, html_a_file, html_b_file,
                 kdfLog, ret, probe, pageVars>>

\* Step 6 of main: in screenshot mode with a non-empty screenshot_rel_map,
\* cleanup_screenshot_files unlinks the files; a failing unlink is printed
\* and leaves its file.
MainCleanup ==
  /\ entry = "main"
  /\ pc = "step6"
  /\ IF screenshot_mode /\ ShotTiles(tiles) # {}
     THEN \E unlinked \in BOOLEAN :
            screenshot_files' =
              IF unlinked THEN "deleted" ELSE screenshot_files
     ELSE UNCHANGED screenshot_files
  /\ pc' = "step7"
  /\ UNCHANGED <<argVars, rngVars, screenshot_mode, thumb_src, file_reads,
                 bcVars, collageOut, gitVars, html, pw, html_a_file,
                 html_b_file, kdfLog, ret, probe, pageVars>>

\* Step 7 of main: build_page_html.
MainBuildPage ==
  /\ entry = "main"
  /\ pc = "step7"
  /\ html' = build_page_html(og_image_rel, real_collage_data_uri)
  /\ file_reads' = file_reads \cup
       FileReads("build_page_html", PageBuildReads(tiles), screenshot_files)
  /\ pc' = "write_a"
  /\ UNCHANGED <<argVars, rngVars, screenshot_mode, screenshot_files,
                 thumb_src, bcVars, collageOut, gitVars, pw, html_a_file,
                 html_b_file, kdfLog, ret, probe, pageVars>>

\* Step 8 of main, first half: HTML A, the plain document, is written.
MainWriteA ==
  /\ entry = "main"
  /\ pc = "write_a"
  /\ html_a_file' = [kind |-> "plain", html |-> html]
  /\ pc' = "write_b"
  /\ UNCHANGED <<argVars, extraVars, bcVars, collageOut, gitVars, html, pw, html_b_file,
                 kdfLog, ret, probe, pageVars>>

\* Step 8 of main, second half: HTML B is written as the AES wrapper, the
\* base64 wrapper or the plain document.
MainWriteB ==
  /\ entry = "main"
  /\ pc = "write_b"
  /\ IF aes_lock
     THEN \E typed \in Passphrases :
            /\ pw' = typed
            /\ IF EmptyPasswordRefused(typed)
               THEN /\ pc' = "exit_1"
                    /\ UNCHANGED <<html_b_file, kdfLog, rngVars>>
               ELSE \E salt \in os_urandom(16, urandom_out),
                       iv \in os_urandom(12, urandom_out) :
                      /\ html_b_file' =
                           make_aes_protected_wrapper(html, typed, og_image_rel,
                                                      salt, iv)
                      /\ urandom_out' = urandom_out \cup {salt, iv}
                      /\ envelopes' =
                           Append(envelopes,
                                  Sealed(encrypt_html_aes_gcm(html, typed,
                                                              salt, iv),
                                         typed, {salt, iv}))
                      /\ kdfLog' = kdfLog \cup {typed}
                      /\ pc' = "written_b"
     ELSE /\ html_b_file' = IF obfuscate THEN make_obfuscated_wrapper(html)
                            ELSE [kind |-> "plain", html |-> html]
          /\ pc' = "written_b"
          /\ UNCHANGED <<pw, kdfLog, rngVars>>
  /\ UNCHANGED <<argVars, shotVars, bcVars, collageOut, gitVars, html, html_a_file, ret,
                 probe, pageVars>>

\* Step 9 of main: files_for_git is HTML B, and the cover when there is one.
MainFilesForGit ==
  /\ entry = "main"
  /\ pc = "written_b"
  /\ files_for_git' = {"B"} \cup (IF cover_path # None THEN {"cover"} ELSE {})
  /\ pc' = "git_add"
  /\ UNCHANGED <<argVars, extraVars, bcVars, collageOut, git, html, pw, html_a_file,
                 html_b_file, kdfLog, ret, probe, pageVars>>

\* GitNext with the `return` of the except blocks left out.
GitNext_NoReturn(step, ok) ==
  CASE step = "add" -> "git_commit"
    [] step = "commit" -> "git_push"
    [] step = "push" -> "git_returned"

\* Where run_git_commands goes after a step: to the next step when
\* subprocess.run(..., check=True) came back, out of the function when it
\* raised (every Exception is caught and printed) and after the push.
GitNext(step, ok) ==
  CASE step = "add" -> IF ok THEN "git_commit" ELSE "git_returned"
    [] step = "commit" -> IF ok THEN "git_push" ELSE "git_returned"
    [] step = "push" -> "git_returned"

\* The bookkeeping of one git step: it ran, and whether it came back.
GitRan(g, step, ok) ==
  [g EXCEPT !.ran = Append(@, step),
            !.ok = IF ok THEN @ \cup {step} ELSE @]

\* run_git_commands: git add; on failure the function returns.
GitAdd(ok) ==
  /\ pc = "git_add"
  /\ git' = [GitRan(git, "add", ok) EXCEPT
               !.added = IF ok THEN files_for_git ELSE {}]
  /\ pc' = GitNext("add", ok)
  /\ UNCHANGED <<argVars, extraVars, bcVars, collageOut, files_for_git, html, pw,
                 html_a_file, html_b_file, kdfLog, ret, probe, pageVars>>

\* run_git_commands: git commit; on failure the function returns.
GitCommit(ok) ==
  /\ pc = "git_commit"
  /\ git' = [GitRan(git, "commit", ok) EXCEPT
               !.committed = IF ok THEN git.added ELSE {}]
  /\ pc' = GitNext("commit", ok)
  /\ UNCHANGED <<argVars, extraVars, bcVars, collageOut, files_for_git, html, pw,
                 html_a_file, html_b_file, kdfLog, ret, probe, pageVars>>

\* run_git_commands: git push; the function returns either way.
GitPush(ok) ==
  /\ pc = "git_push"
  /\ git' = [GitRan(git, "push", ok) EXCEPT
               !.pushed = IF ok THEN git.committed ELSE {}]
  /\ pc' = GitNext("push", ok)
  /\ UNCHANGED <<argVars, extraVars, bcVars, collageOut, files_for_git, html, pw,
                 html_a_file, html_b_file, kdfLog, ret, probe, pageVars>>

\* ------------------------------------------------------------ direct calls
\* An importing caller invokes make_aes_protected_wrapper(html, password,
\* og_image_rel), once or several times.
CallWrapper ==
  /\ entry = "make_aes_protected_wrapper"
  /\ pc \in {"call", "returned"}
  /\ Len(envelopes) < MaxCalls
  /\ \E h \in {build_page_html(None, Absent)}, password \in Passphrases,
        og \in {None, CoverName}, salt \in os_urandom(16, urandom_out),
        iv \in os_urandom(12, urandom_out) :
       /\ pw' = password
       /\ kdfLog' = kdfLog \cup {password}
       /\ ret' = make_aes_protected_wrapper(h, password, og, salt, iv)
       /\ urandom_out' = urandom_out \cup {salt, iv}
       /\ envelopes' =
            Append(envelopes,
                   Sealed(encrypt_html_aes_gcm(h, password, salt, iv),
                          password, {salt, iv}))
  /\ pc' = "returned"
  /\ UNCHANGED <<argVars, shotVars, bcVars, collageOut, gitVars, html, html_a_file,
                 html_b_file, probe, pageVars>>

\* An importing caller invokes encrypt_html_aes_gcm(html, password), once or
\* several times.
CallEncrypt ==
  /\ entry = "encrypt_html_aes_gcm"
  /\ pc \in {"call", "returned"}
  /\ Len(envelopes) < MaxCalls
  /\ \E h \in {build_page_html(None, Absent)}, password \in Passphrases,
        salt \in os_urandom(16, urandom_out),
        iv \in os_urandom(12, urandom_out) :
       LET e == encrypt_html_aes_gcm(h, password, salt, iv)
       IN  /\ pw' = password
           /\ kdfLog' = kdfLog \cup {password}
           /\ ret' = [kind |-> "envelope", fields |-> e]
           /\ urandom_out' = urandom_out \cup {salt, iv}
           /\ envelopes' = Append(envelopes, Sealed(e, password, {salt, iv}))
  /\ pc' = "returned"
  /\ UNCHANGED <<argVars, shotVars, bcVars, collageOut, gitVars, html, html_a_file,
                 html_b_file, probe, pageVars>>

\* -------------------------------------------------------------------- Spec
MaxTiles == 3
MaxOgMax == 3

TileSeqs == UNION {[1..k -> TileKinds] : k \in 0..MaxTiles}
ShotTileSeqs ==
  UNION {[1..k -> TileKinds \cup LocalKinds] : k \in 0..MaxTiles}

NoGit == [ran |-> <<>>, ok |-> {}, added |-> {}, committed |-> {},
          pushed |-> {}]

\* Nothing has run yet.
Fresh ==
  /\ thumb_srcs = <<>>
  /\ imgs = <<>>
  /\ layout = Absent
  /\ collage = Absent
  /\ idx = 0
  /\ bc_ret = Absent
  /\ cover_file = Absent
  /\ real_collage_data_uri = Absent
  /\ cover_path = None
  /\ og_image_rel = None
  /\ pw = <<>>
  /\ html_b_file = Absent
  /\ kdfLog = {}
  /\ ret = Absent
  /\ files_for_git = {}
  /\ git = NoGit
  /\ page = Absent
  /\ tampered = "none"
  /\ document = FormDocument
  /\ errorText = ""
  /\ subs = <<>>
  /\ probe = Absent
  /\ urandom_out = {}
  /\ envelopes = <<>>
  /\ screenshot_files = "present"
  /\ thumb_src = <<>>
  /\ file_reads = {}

\* python video_grid_full_pipeline33T.py ...: main after parse_args and
\* steps 1 to 3, each url of a tile to be built given by its raw_thumb.
InitMain ==
  /\ entry = "main"
  /\ pc = "step4"
  /\ aes_lock \in BOOLEAN
  /\ obfuscate \in BOOLEAN
  /\ og_max \in 1..MaxOgMax
  /\ screenshot_mode \in BOOLEAN
  /\ tiles \in (IF screenshot_mode THEN ShotTileSeqs ELSE TileSeqs)
  /\ max_cells = 0
  /\ base_w = 0
  /\ base_h = 0
  /\ html = Absent
  /\ html_a_file = Absent
  /\ Fresh

\* A direct call of build_collages_for_33T or of an envelope function.
InitCall ==
  /\ \/ /\ entry = "build_collages_for_33T"
        /\ pc = "bc_collect"
        /\ tiles \in TileSeqs
        /\ max_cells \in 0..MaxOgMax
     \/ /\ entry \in {"make_aes_protected_wrapper", "encrypt_html_aes_gcm"}
        /\ pc = "call"
        /\ tiles = <<>>
        /\ max_cells = 0
  /\ aes_lock = FALSE
  /\ obfuscate = FALSE
  /\ og_max = 1
  /\ screenshot_mode = FALSE
  /\ base_w = MainBaseW
  /\ base_h = MainBaseH
  /\ html = Absent
  /\ html_a_file = Absent
  /\ Fresh

Init == InitMain \/ InitCall

Next ==
  \/ MainBuildTiles
  \/ MainCollage
  \/ BcCollect
  \/ BcLoad
  \/ BcPlace
  \/ BcEncode
  \/ BcCover
  \/ MainCollageReturn
  \/ MainCleanup
  \/ MainBuildPage
  \/ MainWriteA
  \/ MainWriteB
  \/ MainFilesForGit
  \/ \E ok \in BOOLEAN : GitAdd(ok)
  \/ \E ok \in BOOLEAN : GitCommit(ok)
  \/ \E ok \in BOOLEAN : GitPush(ok)
  \/ CallWrapper
  \/ CallEncrypt

Spec == Init /\ [][Next]_vars

\* ------------------------------------------------------------- EnvelopeSpec
\* A caller that seals several documents, one call after the other.
EnvelopeInit ==
  /\ entry \in {"make_aes_protected_wrapper", "encrypt_html_aes_gcm"}
  /\ pc = "call"
  /\ tiles = <<>>
  /\ max_cells = 0
  /\ aes_lock = FALSE
  /\ obfuscate = FALSE
  /\ og_max = 1
  /\ screenshot_mode = FALSE
  /\ base_w = 0
  /\ base_h = 0
  /\ html = Absent
  /\ html_a_file = Absent
  /\ Fresh

EnvelopeNext ==
  \/ CallWrapper
  \/ CallEncrypt

EnvelopeSpec == EnvelopeInit /\ [][EnvelopeNext]_vars

\* ----------------------------------------------------------------- PageSpec
\* The documents handed to the lock step: bodies that start with an ordinary
\* character and one that starts with a byte order mark.
PagePayloads ==
  {[prefix |-> p, og |-> None, banner |-> Absent] :
     p \in {<<"<">>, <<"x", BOM>>, <<BOM, "<">>}}

PageInit ==
  /\ entry = "main"
  /\ pc = "write_b"
  /\ aes_lock = TRUE
  /\ obfuscate = FALSE
  /\ og_max = 1
  /\ screenshot_mode = FALSE
  /\ tiles = <<>>
  /\ max_cells = 0
  /\ base_w = 0
  /\ base_h = 0
  /\ html \in PagePayloads
  /\ html_a_file = [kind |-> "plain", html |-> html]
  /\ Fresh

PageNext ==
  \/ MainWriteB
  \/ PageLoad
  \/ \E kind \in TamperKinds : Tamper(kind)
  \/ \E raw \in Passphrases : Submit(raw)
  \/ \E i \in 1..MaxSubmits : ResolveImportKey(i)
  \/ \E i \in 1..MaxSubmits : ResolveDeriveKey(i)
  \/ \E i \in 1..MaxSubmits : ResolveDecrypt(i)

PageSpec == PageInit /\ [][PageNext]_vars


\* ------------------------------------------------------ claims on the page
Submissions == 1..Len(subs)
InFlight == {i \in Submissions : subs[i].pc \in InFlightPcs}

\* The state of the page in terms of Locked / Verifying / Unlocked.
PageState ==
  IF document # FormDocument THEN "Unlocked"
  ELSE IF InFlight # {} THEN "Verifying"
  ELSE "Locked"

\* C1: on an untampered page, a submission whose typed text is the passphrase
\* given at lock time ends with the document replaced by exactly the locked
\* payload.
C1_RoundTrip ==
  \A i \in Submissions :
    (tampered = "none" /\ subs[i].raw = pw /\ subs[i].pc \in FinishedPcs)
      => (subs[i].pc = "ok" /\ document = WrittenDocument(html))

\* C2: a submission whose typed text differs from the lock passphrase never
\* renders anything and, once finished, has ended in an error.
C2_WrongPasswordRejected ==
  \A i \in Submissions :
    subs[i].raw # pw => (~subs[i].wrote /\ subs[i].pc # "ok")

\* C3: at most one unlockWithPassword attempt is between its start and the
\* settling of its awaited steps.
C3_SingleFlight == Cardinality(InFlight) <= 1

\* C4: the page follows Locked -> Verifying -> {Unlocked | Locked+Error}:
\* a submitted non-empty text starts an attempt, and does so from Locked; an
\* attempt that ends leaves the page Unlocked (its decryption succeeded) or
\* Locked with the error text set; Unlocked is entered only from Verifying
\* by a succeeding attempt; Unlocked is never left.
C4_Step ==
  /\ (Len(subs') = Len(subs) + 1 /\ subs'[Len(subs')].raw # <<>>)
       => (PageState = "Locked" /\ subs'[Len(subs')].pc # "rejected")
  /\ \A i \in 1..Len(subs') :
       ((i \in InFlight \/ i > Len(subs)) /\ subs'[i].pc \in {"ok", "err"})
         => \/ (PageState' = "Unlocked" /\ subs'[i].pc = "ok")
            \/ (PageState' = "Locked" /\ subs'[i].pc = "err"
                /\ errorText' = ErrWrongPassword)
  /\ (PageState # "Unlocked" /\ PageState' = "Unlocked")
       => (PageState = "Verifying"
           /\ \E i \in InFlight : subs'[i].pc = "ok" /\ subs'[i].wrote)
  /\ PageState = "Unlocked" => PageState' = "Unlocked"

C4_StateMachine == [][C4_Step]_vars

MaxThumbs == 4

ThumbSeqs == UNION {[1..k -> ThumbKinds] : k \in 0..MaxThumbs}
CollageCanvases == {<<MainBaseW, MainBaseH>>, <<7, 5>>, <<1, 1>>}

CollageInit ==
  /\ entry = "build_collages_for_33T"
  /\ pc = "bc_collect"
  /\ tiles \in ThumbSeqs
  /\ max_cells \in 0..MaxThumbs
  /\ \E canvas \in CollageCanvases : base_w = canvas[1] /\ base_h = canvas[2]
  /\ aes_lock = FALSE
  /\ obfuscate = FALSE
  /\ og_max = 1
  /\ screenshot_mode = FALSE
  /\ html = Absent
  /\ html_a_file = Absent
  /\ Fresh

CollageNext ==
  \/ BcCollect
  \/ BcLoad
  \/ BcPlace
  \/ BcEncode
  \/ BcCover

CollageSpec == CollageInit /\ [][CollageNext]_vars

\* ---------------------------------------------------------------- LayoutSpec
MaxLayoutN == 64
MaxCanvasW == 16
MaxCanvasH == 10

CanvasWidths == (1..MaxCanvasW) \cup {MainBaseW}
CanvasHeights == (1..MaxCanvasH) \cup {MainBaseH}

LayoutInit ==
  /\ entry = "layout"
  /\ pc = "call"
  /\ aes_lock = FALSE
  /\ obfuscate = FALSE
  /\ og_max = 1
  /\ tiles = <<>>
  /\ max_cells = 0
  /\ base_w = 0
  /\ base_h = 0
  /\ html = Absent
  /\ html_a_file = Absent
  /\ thumb_srcs = <<>>
  /\ imgs = <<>>
  /\ layout = Absent
  /\ collage = Absent
  /\ idx = 0
  /\ bc_ret = Absent
  /\ cover_file = Absent
  /\ real_collage_data_uri = Absent
  /\ cover_path = None
  /\ og_image_rel = None
  /\ pw = <<>>
  /\ html_b_file = Absent
  /\ kdfLog = {}
  /\ ret = Absent
  /\ files_for_git = {}
  /\ git = NoGit
  /\ page = Absent
  /\ tampered = "none"
  /\ document = FormDocument
  /\ errorText = ""
  /\ subs = <<>>
  /\ urandom_out = {}
  /\ envelopes = <<>>
  /\ screenshot_mode = FALSE
  /\ screenshot_files = "present"
  /\ thumb_src = <<>>
  /\ file_reads = {}
  /\ \E n \in 1..MaxLayoutN, w \in CanvasWidths, h \in CanvasHeights :
       probe = [kind |-> "layout", n |-> n, w |-> w, h |-> h, out |-> Absent]

\* Lines 492-498 for n loaded images on a w x h canvas.
SolveLayout ==
  /\ entry = "layout"
  /\ probe.out = Absent
  /\ probe' = [probe EXCEPT !.out = GridLayout(probe.n, probe.w, probe.h)]
  /\ pc' = "returned"
  /\ UNCHANGED <<argVars, extraVars, bcVars, collageOut, gitVars, html, pw, html_a_file,
                 html_b_file, kdfLog, ret, pageVars>>

LayoutNext == SolveLayout

LayoutSpec == LayoutInit /\ [][LayoutNext]_vars

\* --------------------------------------------------- claims on the pipeline
\* C6: no key is ever derived from an empty passphrase, and a call given one
\* ends with no envelope returned, no HTML B written and nothing pushed.
C6_EmptyPassphraseRejected ==
  /\ <<>> \notin kdfLog
  /\ (pw = <<>> /\ pc \in {"exit_1", "returned"})
       => (ret = Absent /\ html_b_file = Absent /\ git.pushed = {})

\* (C6, main's own path) main refuses the empty passphrase before the
\* wrapper is called: nothing is derived, HTML B is not written, git is not
\* reached.
MainRefusesEmptyPassphrase ==
  entry = "main" =>
    /\ <<>> \notin kdfLog
    /\ pc = "exit_1" =>
         (pw = <<>> /\ html_b_file = Absent /\ files_for_git = {} /\ git = NoGit)

\* The cover file is the blur of the finished composite of this call.
CoverFromFinishedComposite ==
  /\ cover_file = Blurred(collage)
  /\ Cardinality(collage.placed) = Min(Len(imgs), layout.cols * layout.rows)

\* C7: the cover is derived only from the fully built composite; its file
\* exists before its name is returned; and og:image / twitter:image of the
\* page and of the AES wrapper name a cover only if that file was written
\* earlier in the run from the run's composite.
C7_DependencyChain ==
  /\ cover_file # Absent => CoverFromFinishedComposite
  /\ (bc_ret # Absent /\ bc_ret.path # None) => cover_file # Absent
  /\ entry = "main" =>
       /\ cover_path # None => cover_file # Absent
       /\ og_image_rel # None =>
            (og_image_rel = CoverName /\ cover_file # Absent)
       /\ (html # Absent /\ html.og # None) =>
            (html.og = CoverName /\ cover_file # Absent
             /\ CoverFromFinishedComposite)
       /\ (html_b_file.kind = "aes" /\ html_b_file.og # None) =>
            (html_b_file.og = CoverName /\ cover_file # Absent
             /\ CoverFromFinishedComposite)

\* An AES wrapper naming the cover of a collage of two images was written.
C7_Witness ==
  /\ entry = "main"
  /\ html_b_file.kind = "aes"
  /\ html_b_file.og = CoverName
  /\ collage # Absent
  /\ Cardinality(collage.placed) >= 2

\* The images a reader of a file gets without the passphrase.
BannerImages(h) == IF h.banner # Absent THEN {h.banner.png} ELSE {}
ClearImages(f) ==
  CASE f.kind = "plain" -> BannerImages(f.html)
    [] f.kind = "obf" -> BannerImages(base64ToArrayBuffer(f.b64))
    [] f.kind = "aes" -> {}
    [] f.kind = "blurred" -> {f}
    [] OTHER -> {}

FileContent(name) ==
  CASE name = "A" -> html_a_file
    [] name = "B" -> html_b_file
    [] name = "cover" -> cover_file

\* C8: HTML A is never handed to git, and every image readable in the clear
\* in a file handed to git is the blurred cover; the composite is there only
\* inside the encrypted payload.
C8_CompositeConfined ==
  \A name \in files_for_git :
    /\ name # "A"
    /\ \A img \in ClearImages(FileContent(name)) : img.kind = "blurred"

\* The tiles whose source is collected: those with a source that have fewer
\* than max_cells tiles with a source before them.
CollectedTiles ==
  {i \in 1..Len(tiles) :
     /\ tiles[i] # "none"
     /\ Cardinality({j \in 1..(i - 1) : tiles[j] # "none"}) < max_cells}

ZeroUsable == max_cells <= 0 \/ \A i \in CollectedTiles : tiles[i] = "bad"

\* C9: with zero usable thumbnails build_collages_for_33T never gets past
\* its early exits and returns (None, None): no canvas, no cover file; and
\* main emits no collage banner and no cover metadata.
C9_DegenerateSkipped ==
  ZeroUsable =>
    /\ pc \notin {"bc_place", "bc_encode", "bc_cover"}
    /\ collage = Absent
    /\ cover_file = Absent
    /\ bc_ret # Absent => bc_ret = NoCollage
    /\ real_collage_data_uri = Absent
    /\ cover_path = None
    /\ og_image_rel = None
    /\ html # Absent => (html.banner = Absent /\ html.og = None)
    /\ html_b_file.kind = "aes" => html_b_file.og = None

\* main wrote HTML B after a collage call whose every collected source
\* failed to load.
C9_Witness ==
  /\ entry = "main"
  /\ pc = "written_b"
  /\ max_cells >= 1
  /\ CollectedTiles # {}
  /\ ZeroUsable
  /\ bc_ret = NoCollage

\* C10: for n >= 1 images on a positive canvas the layout has
\* 3 <= cols <= 12, rows >= 1, cols*cell_w <= canvas_w and
\* rows*cell_h <= canvas_h.
C10_LayoutBounds ==
  (probe # Absent /\ probe.out # Absent) =>
    LET o == probe.out
    IN  /\ 3 <= o.cols /\ o.cols <= 12
        /\ o.rows >= 1
        /\ o.cols * o.cell_w <= probe.w
        /\ o.rows * o.cell_h <= probe.h

\* A layout of twelve columns and several rows was computed.
C10_Witness ==
  /\ probe # Absent
  /\ probe.out # Absent
  /\ probe.out.cols = 12
  /\ probe.out.rows >= 2

\* C11: the layout computed for n >= 1 images on a w x h canvas is the
\* reference one: cols is ceil(sqrt(n*w/h)) clamped to 3..12, rows is
\* ceil(n/cols), cell_w and cell_h are the integer quotients w div cols and
\* h div rows, and what is left over is a margin on the right of less than
\* cols pixels and at the bottom of less than rows pixels.
C11_LayoutFormula ==
  (probe # Absent /\ probe.out # Absent) =>
    LET o == probe.out
        n == probe.n
        w == probe.w
        h == probe.h
    IN  /\ o.cols \in 3..12
        /\ o.cols > 3 => (o.cols - 1) * (o.cols - 1) * h < n * w
        /\ o.cols < 12 => o.cols * o.cols * h >= n * w
        /\ (o.rows - 1) * o.cols < n /\ n <= o.rows * o.cols
        /\ o.cell_w >= 0 /\ o.cell_h >= 0
        /\ w - o.cols * o.cell_w \in 0..(o.cols - 1)
        /\ h - o.rows * o.cell_h \in 0..(o.rows - 1)

\* A layout with an unclamped column count and pixels left over on both
\* sides was computed.
C11_Witness ==
  /\ probe # Absent
  /\ probe.out # Absent
  /\ probe.out.cols \in 4..11
  /\ probe.w - probe.out.cols * probe.out.cell_w > 0
  /\ probe.h - probe.out.rows * probe.out.cell_h > 0

\* The worked scenario: 5 images on the 1200 x 630 canvas.
WorkedScenario ==
  /\ probe # Absent
  /\ probe.n = 5 /\ probe.w = MainBaseW /\ probe.h = MainBaseH
  /\ probe.out # Absent

\* C12: for 5 loaded thumbnails on a 1200x630 canvas the layout has cols = 3
\* and rows = 2.
C12_WorkedScenario ==
  WorkedScenario => (probe.out.cols = 3 /\ probe.out.rows = 2)

\* C12, amended: for 5 loaded thumbnails on a 1200x630 canvas the layout
\* has cols = 4 and rows = 2 (cells of 300 x 315).
C12_WorkedScenarioAmended ==
  WorkedScenario =>
    probe.out = [cols |-> 4, rows |-> 2, cell_w |-> 300, cell_h |-> 315]

C12_Witness == WorkedScenario

\* ------------------------------------------------- claims on the compositing
\* The placement loop of the call has run to its end.
Composited ==
  \/ pc \in {"bc_encode", "bc_cover"}
  \/ pc = "bc_return" /\ bc_ret # NoCollage

\* The cell of the thumbnail at position k (from 1) of the ordered
\* thumbnail set, in row-major order.
OwnCell(k) ==
  [r |-> (k - 1) \div layout.cols, c |-> (k - 1) % layout.cols]

\* C13: when compositing has been done over an ordered thumbnail set with
\* unreadable members, the cell at the position of each unreadable one holds
\* nothing (stays background) and every readable one sits in the cell of its
\* own position in the set.
C13_BadThumbnailTolerance ==
  Composited =>
    \A k \in 1..Len(thumb_srcs) :
      IF tiles[thumb_srcs[k]] = "bad"
      THEN \A p \in collage.placed :
             ~(p.r = OwnCell(k).r /\ p.c = OwnCell(k).c)
      ELSE \E p \in collage.placed :
             /\ p.img = thumb_srcs[k]
             /\ p.r = OwnCell(k).r
             /\ p.c = OwnCell(k).c

\* The position (from 0) of a tile in imgs.
ImgIndex(t) == CHOOSE k \in 0..(Len(imgs) - 1) : imgs[k + 1] = t

\* (C14) what holds of the placements in every state.
RowMajor ==
  collage # Absent =>
    /\ \A p \in collage.placed :
         /\ ImgIndex(p.img) < idx
         /\ p.r = ImgIndex(p.img) \div layout.cols
         /\ p.c = ImgIndex(p.img) % layout.cols
         /\ p.r < layout.rows
    /\ \A k \in 0..(idx - 1) : \E p \in collage.placed : p.img = imgs[k + 1]
    /\ \A p, q \in collage.placed :
         /\ p.img # q.img => <<p.r, p.c>> # <<q.r, q.c>>
         /\ ImgIndex(p.img) < ImgIndex(q.img) =>
              (p.r < q.r \/ (p.r = q.r /\ p.c < q.c))
    /\ Composited =>
         \A k \in 0..(Len(imgs) - 1) :
           (k \div layout.cols >= layout.rows) =>
             \A p \in collage.placed : p.img # imgs[k + 1]

\* (C14) a step of the loop leaves the earlier placements as they are.
KeepsPlacements ==
  collage # Absent => collage.placed \subseteq collage'.placed

\* C14: the image with index idx (from 0) is placed at row idx div cols,
\* column idx mod cols, so that distinct images get distinct cells in input
\* order; an image whose row would be >= rows is not placed, the loop ends
\* without an error, and no step changes an earlier placement.
C14_RowMajorPlacement == []RowMajor /\ [][KeepsPlacements]_vars

\* A composite with images in its second row is finished.
C14_Witness ==
  /\ Composited
  /\ \E p \in collage.placed : p.r = 1 /\ p.c = 0
  /\ \E p \in collage.placed : p.r = 0 /\ p.c = 2

\* C15: every placed image has new_w <= cell_w and new_h <= cell_h with one
\* of them equal; its size is the image's size scaled by
\* min(cell_w/img_w, cell_h/img_h), cut to whole pixels; its rectangle is
\* inside its own cell, centred up to one pixel, inside the canvas, and
\* disjoint from every other placed rectangle.
C15_FitAndCentre ==
  collage # Absent =>
    /\ \A p \in collage.placed :
         LET im == ImgSize(tiles[p.img])
             cw == layout.cell_w
             ch == layout.cell_h
             left == p.x - p.c * cw
             right == (p.c + 1) * cw - (p.x + p.new_w)
             top == p.y - p.r * ch
             bottom == (p.r + 1) * ch - (p.y + p.new_h)
         IN  /\ p.new_w <= cw /\ p.new_h <= ch
             /\ p.new_w = cw \/ p.new_h = ch
             /\ IF cw * im.h <= ch * im.w
                THEN /\ p.new_w = cw
                     /\ p.new_h * im.w <= cw * im.h
                     /\ cw * im.h < (p.new_h + 1) * im.w
                ELSE /\ p.new_h = ch
                     /\ p.new_w * im.h <= ch * im.w
                     /\ ch * im.w < (p.new_w + 1) * im.h
             /\ left >= 0 /\ right >= 0 /\ top >= 0 /\ bottom >= 0
             /\ right - left \in {0, 1}
             /\ bottom - top \in {0, 1}
             /\ p.x >= 0 /\ p.x + p.new_w <= collage.w
             /\ p.y >= 0 /\ p.y + p.new_h <= collage.h
    /\ \A p, q \in collage.placed :
         p # q =>
           \/ p.x + p.new_w <= q.x \/ q.x + q.new_w <= p.x
           \/ p.y + p.new_h <= q.y \/ q.y + q.new_h <= p.y

\* A finished composite of two rows holds an image limited by the width of
\* its cell and one limited by the height.
C15_Witness ==
  /\ Composited
  /\ \E p \in collage.placed : p.r = 1
  /\ \E p \in collage.placed :
       p.new_w = layout.cell_w /\ p.new_h < layout.cell_h
  /\ \E p \in collage.placed :
       p.new_h = layout.cell_h /\ p.new_w < layout.cell_w

\* C18: cols*rows >= n in every compositing run, the loop never breaks on
\* r >= rows, and a finished composite holds every loaded image.
C18_CapacitySuffices ==
  layout # Absent =>
    /\ layout.cols * layout.rows >= Len(imgs)
    /\ (pc = "bc_place" /\ idx < Len(imgs)) =>
         idx \div layout.cols < layout.rows
    /\ Composited =>
         /\ idx = Len(imgs)
         /\ {p.img : p \in collage.placed} = {imgs[k] : k \in 1..Len(imgs)}

\* A composite of four loaded images, the fourth alone in the second row,
\* is finished.
C18_Witness ==
  /\ Composited
  /\ Len(imgs) = 4
  /\ layout.cols = 3
  /\ Cardinality(collage.placed) = 4

\* C19: on the 1200x630 canvas, for every number of loaded images up to a
\* max_cells >= 1 and images of positive size, cell_w >= 1, cell_h >= 1 and
\* every image's new_w >= 1 and new_h >= 1: the call never raises on a zero
\* division or an empty resize.
C19_NoZeroDimension ==
  (base_w = MainBaseW /\ base_h = MainBaseH /\ max_cells >= 1
   /\ layout # Absent) =>
    /\ layout.cell_w >= 1
    /\ layout.cell_h >= 1
    /\ \A k \in 1..Len(imgs) :
         LET im == ImgSize(tiles[imgs[k]])
             new == FitSize(im, layout.cell_w, layout.cell_h)
         IN  (im.w >= 1 /\ im.h >= 1) => (new.w >= 1 /\ new.h >= 1)
    /\ pc # "raised"

\* ------------------------------------------------------- claims on publishing
GitSteps == <<"add", "commit", "push">>
GitPcs == {"git_add", "git_commit", "git_push"}

\* (C17) what holds of run_git_commands in every state.
GitOrdered ==
  /\ Len(git.ran) <= 3
  /\ git.ran = SubSeq(GitSteps, 1, Len(git.ran))
  /\ \A k \in 1..Len(git.ran) :
       /\ k > 1 => git.ran[k - 1] \in git.ok
       /\ git.ran[k] \notin git.ok => (k = Len(git.ran) /\ pc = "git_returned")
  /\ Len(git.ran) >= 2 => git.added = files_for_git
  /\ Len(git.ran) >= 3 => git.committed = files_for_git
  /\ pc = "git_returned" => (git.ran = GitSteps \/ git.ok # {"add", "commit"})
  /\ git.pushed # {} => git.ok = {"add", "commit", "push"}

\* (C17) every step of run_git_commands goes on inside the function or
\* returns from it.
GitReturns ==
  pc \in GitPcs => pc' \in GitPcs \cup {"git_returned"}

\* C17: git commit is attempted only after git add succeeded and git push
\* only after git commit succeeded; a step that fails is the last one
\* attempted, nothing is raised and the function returns.
C17_PublishOrdering == []GitOrdered /\ [][GitReturns]_vars

\* run_git_commands has returned after a commit that failed.
C17_Witness ==
  /\ pc = "git_returned"
  /\ git.ran = <<"add", "commit">>
  /\ git.ok = {"add"}
  /\ git.pushed = {}

CollageOver ==
  pc \notin {"step4", "step5", "bc_collect", "bc_load", "bc_place",
             "bc_encode", "bc_cover", "bc_return"}

\* (C20) what holds of the screenshot files in every state.
ScreenshotLifetime ==
  /\ screenshot_files = "deleted" =>
       /\ Len(thumb_src) = Len(tiles)
       /\ \A i \in ShotTiles(tiles) :
            /\ thumb_src[i] = ThumbDataUri
            /\ [by |-> "src_to_data_uri", tile |-> i, found |-> TRUE]
                 \in file_reads
       /\ CollageOver
       /\ \A k \in 1..Len(thumb_srcs) :
            thumb_srcs[k] \in ShotTiles(tiles) =>
              [by |-> "download_image_to_pil", tile |-> thumb_srcs[k],
               found |-> TRUE] \in file_reads
  /\ \A rd \in file_reads : rd.found

\* (C20) once the files are deleted no step reads one.
NoReadAfterCleanup ==
  screenshot_files = "deleted" => file_reads' = file_reads

\* C20: the screenshot files are deleted only after the data URI of every
\* tile has been built from them and build_collages_for_33T has read them,
\* and no step reads a screenshot file after the cleanup.
C20_ScreenshotLifetime == []ScreenshotLifetime /\ [][NoReadAfterCleanup]_vars

\* main has pushed after deleting the screenshots, one of which is in the
\* composite.
C20_Witness ==
  /\ screenshot_files = "deleted"
  /\ pc = "git_returned"
  /\ git.pushed # {}
  /\ collage # Absent
  /\ \E p \in collage.placed : tiles[p.img] \in LocalKinds

====
